---------------------------- MODULE Spec2Model ----------------------------
(***************************************************************************)
(* A model of univers/versions.py: the scheme-tagged version classes, the  *)
(* scheme registry and parse_version.                                      *)
(*                                                                         *)
(* Strings are sequences of one-character strings, so that partition,     *)
(* lower, lstrip, the regular expressions and the comparators are computed *)
(* character by character the way the code computes them.                  *)
(***************************************************************************)
EXTENDS Integers, Sequences, FiniteSets, TLC

VARIABLES op, arg, vals, out

vars == <<op, arg, vals, out>>

(***************************************************************************)
(* Bounds of the model.                                                    *)
(***************************************************************************)
\* longest exhaustively enumerated version body
MaxLen == 3
\* longest hand-picked version string admitted to a pool
MaxPick == 8

(***************************************************************************)
(* Characters.                                                             *)
(***************************************************************************)
DigitSeq == <<"0", "1", "2", "3", "4", "5", "6", "7", "8", "9">>
UpperSeq == <<"A", "B", "C", "D", "E", "F", "G", "H", "I", "J", "K", "L", "M",
              "N", "O", "P", "Q", "R", "S", "T", "U", "V", "W", "X", "Y", "Z">>
LowerSeq == <<"a", "b", "c", "d", "e", "f", "g", "h", "i", "j", "k", "l", "m",
              "n", "o", "p", "q", "r", "s", "t", "u", "v", "w", "x", "y", "z">>
\* the characters of the model, in ASCII order
Ascii == <<" ", "!", "+", "-", ".">> \o DigitSeq \o <<":">> \o UpperSeq
         \o <<"_">> \o LowerSeq \o <<"~">>

Range(s) == {s[i] : i \in 1..Len(s)}
Digit == Range(DigitSeq)
Upper == Range(UpperSeq)
Lower == Range(LowerSeq)
Alpha == Upper \cup Lower
Char == Range(Ascii)

\* the rank of a character in ASCII order
Ord == [c \in Char |-> CHOOSE i \in 1..Len(Ascii) : Ascii[i] = c]
DigitVal == [c \in Digit |-> (CHOOSE i \in 1..10 : DigitSeq[i] = c) - 1]
LowerOf == [c \in Char |->
              IF c \in Upper
                THEN LowerSeq[CHOOSE i \in 1..26 : UpperSeq[i] = c]
                ELSE c]

IsDigit(c) == c \in Digit
IsAlpha(c) == c \in Alpha
IsAlnum(c) == c \in Digit \cup Alpha

(***************************************************************************)
(* String helpers (Python's str methods the code uses).                    *)
(***************************************************************************)
Tail2(s, i) == SubSeq(s, i, Len(s))

RECURSIVE Find(_, _, _)
\* str.find from position i: the first index of c, 0 when there is none
Find(s, c, i) ==
  IF i > Len(s) THEN 0 ELSE IF s[i] = c THEN i ELSE Find(s, c, i + 1)

RECURSIVE RFind(_, _, _)
\* str.rfind scanning down from position i
RFind(s, c, i) ==
  IF i < 1 THEN 0 ELSE IF s[i] = c THEN i ELSE RFind(s, c, i - 1)

AllDigits(s) == \A i \in 1..Len(s) : IsDigit(s[i])

StartsWithAt(s, i, p) ==
  /\ i + Len(p) - 1 <= Len(s)
  /\ \A k \in 1..Len(p) : s[i + k - 1] = p[k]

RECURSIVE SkipDigits(_, _)
\* the index after the maximal digit run starting at i
SkipDigits(s, i) ==
  IF i <= Len(s) /\ IsDigit(s[i]) THEN SkipDigits(s, i + 1) ELSE i

RECURSIVE ParseInt(_)
\* int(s) of a digit string (the empty string reads as 0)
ParseInt(s) ==
  IF Len(s) = 0 THEN 0
  ELSE 10 * ParseInt(SubSeq(s, 1, Len(s) - 1)) + DigitVal[s[Len(s)]]

RECURSIVE IntToStr(_)
\* str(n) of a natural number
IntToStr(n) ==
  IF n < 10 THEN <<DigitSeq[n + 1]>>
  ELSE IntToStr(n \div 10) \o <<DigitSeq[(n % 10) + 1]>>

\* str.lower
lower(s) == [i \in 1..Len(s) |-> LowerOf[s[i]]]

RECURSIVE lstrip(_, _)
\* str.lstrip(c): every leading c removed
lstrip(s, c) ==
  IF Len(s) > 0 /\ s[1] = c THEN lstrip(Tail(s), c) ELSE s

\* univers.utils.remove_spaces
remove_spaces(s) == SelectSeq(s, LAMBDA c : c /= " ")

RECURSIVE Join(_, _)
\* sep.join(parts)
Join(parts, sep) ==
  IF Len(parts) = 0 THEN <<>>
  ELSE IF Len(parts) = 1 THEN parts[1]
  ELSE parts[1] \o sep \o Join(Tail(parts), sep)

RECURSIVE Split(_, _)
\* s.split(c)
Split(s, c) ==
  LET i == Find(s, c, 1)
  IN IF i = 0 THEN <<s>>
     ELSE <<SubSeq(s, 1, i - 1)>> \o Split(Tail2(s, i + 1), c)

Sign(n) == IF n < 0 THEN -1 ELSE IF n > 0 THEN 1 ELSE 0

(***************************************************************************)
(* Results of a call: a Version object, a raised exception, a string or    *)
(* the outcome of the comparison operators.                                *)
(***************************************************************************)
Raise(e) == [kind |-> "error", error |-> e]
Value(c, sch, val, vs) ==
  [kind |-> "value", cls |-> c, scheme |-> sch, value |-> val,
   version_string |-> vs]
Text(s) == [kind |-> "text", text |-> s]
None == [kind |-> "none"]

IsValue(r) == r.kind = "value"
IsError(r) == r.kind = "error"

\* the object holding the value a library parser returned, or the exception
\* the parser raised
ValueOf(parsed, c, sch, vs) ==
  IF IsError(parsed) THEN parsed ELSE Value(c, sch, parsed.v, vs)


(***************************************************************************)
(* Scheme identifiers, as the strings the code writes.                     *)
(***************************************************************************)
S_generic == <<"g", "e", "n", "e", "r", "i", "c">>
S_semver == <<"s", "e", "m", "v", "e", "r">>
S_debian == <<"d", "e", "b", "i", "a", "n">>
S_pypi == <<"p", "y", "p", "i">>
S_maven == <<"m", "a", "v", "e", "n">>
S_nuget == <<"n", "u", "g", "e", "t">>
S_rpm == <<"r", "p", "m">>
S_ebuild == <<"e", "b", "u", "i", "l", "d">>
S_arch == <<"a", "r", "c", "h">>

(***************************************************************************)
(* GentooVersion                                                           *)
(***************************************************************************)
\* the alternation p(?:re)?|beta|alpha|rc of version_re, in its order
GentooSuffixWords ==
  << <<"p", "r", "e">>, <<"p">>, <<"b", "e", "t", "a">>,
     <<"a", "l", "p", "h", "a">>, <<"r", "c">> >>

RECURSIVE ReDotted(_, _)
\* (?:\.\d+)* from position i: the index after the last group matched
ReDotted(s, i) ==
  IF i + 1 <= Len(s) /\ s[i] = "." /\ IsDigit(s[i + 1])
    THEN ReDotted(s, SkipDigits(s, i + 1))
    ELSE i

\* the index after the suffix word matching at i, 0 when none does
ReSuffixWord(s, i) ==
  LET hits == {k \in 1..Len(GentooSuffixWords) :
                 StartsWithAt(s, i, GentooSuffixWords[k])}
  IN IF hits = {} THEN 0
     ELSE LET k == CHOOSE k \in hits : \A h \in hits : k <= h
          IN i + Len(GentooSuffixWords[k])

RECURSIVE ReSuffixes(_, _)
\* (?:_(p(?:re)?|beta|alpha|rc)\d*)* from position i
ReSuffixes(s, i) ==
  IF i <= Len(s) /\ s[i] = "_" /\ ReSuffixWord(s, i + 1) /= 0
    THEN ReSuffixes(s, SkipDigits(s, ReSuffixWord(s, i + 1)))
    ELSE i

\* version_re without its "$": a match of a prefix of s is enough
version_re_match_unanchored(s) == SkipDigits(s, 1) > 1

\* version_re.match(s) is not None
\* ^(?:\d+)(?:\.\d+)*[a-zA-Z]?(?:_(p(?:re)?|beta|alpha|rc)\d*)*$
version_re_match(s) ==
  LET i1 == SkipDigits(s, 1)
      i2 == ReDotted(s, i1)
      i3 == IF i2 <= Len(s) /\ IsAlpha(s[i2]) THEN i2 + 1 ELSE i2
      i4 == ReSuffixes(s, i3)
  IN i1 > 1 /\ i4 = Len(s) + 1

\* gentoo.parse_version_and_revision: the version without its -rN suffix,
\* and N (0 when there is no suffix)
gentoo_parse_version_and_revision(s) ==
  LET i == RFind(s, "-", Len(s))
      has == /\ i /= 0
             /\ i + 2 <= Len(s)
             /\ s[i + 1] = "r"
             /\ AllDigits(Tail2(s, i + 2))
  IN IF has THEN <<SubSeq(s, 1, i - 1), ParseInt(Tail2(s, i + 2))>>
     ELSE <<s, 0>>

\* GentooVersion.validate: TRUE when it returns, FALSE when it raises
GentooVersion_validate(version_string) ==
  version_re_match(gentoo_parse_version_and_revision(version_string)[1])

GentooVersion_init(version_string) ==
  LET cleaned == remove_spaces(version_string)
  IN IF ~GentooVersion_validate(cleaned) THEN Raise("InvalidVersion")
     ELSE Value("GentooVersion", S_ebuild, cleaned, cleaned)

(***************************************************************************)
(* RPMVersion, ArchVersion, GenericVersion                                 *)
(***************************************************************************)
\* RPMVersion.validate accepts everything
RPMVersion_init(version_string) ==
  LET cleaned == remove_spaces(version_string)
  IN Value("RPMVersion", S_rpm, cleaned, cleaned)

ArchVersion_init(version_string) ==
  LET cleaned == remove_spaces(lower(version_string))
  IN Value("ArchVersion", S_arch, cleaned, cleaned)

\* GenericVersion defines no __init__: object's takes no argument, and the
\* call cls(version) of parse_version raises TypeError
GenericVersion_init(version_string) == Raise("TypeError")

(***************************************************************************)
(* SemverVersion and NugetVersion.  The value is a semantic_version        *)
(* Version: major, minor, patch, the prerelease identifiers and the build  *)
(* identifiers.                                                            *)
(***************************************************************************)
RECURSIVE StrLess(_, _)
\* Python's < on two strings
StrLess(x, y) ==
  IF Len(y) = 0 THEN FALSE
  ELSE IF Len(x) = 0 THEN TRUE
  ELSE IF x[1] = y[1] THEN StrLess(Tail(x), Tail(y))
  ELSE Ord[x[1]] < Ord[y[1]]

\* the characters Version.coerce keeps in what follows the numbers; it
\* replaces every other one by "-"
SemverRestChar(c) == IF IsAlnum(c) \/ c \in {"+", ".", "-"} THEN c ELSE "-"

\* an identifier list is valid when no identifier is empty and, where
\* leading zeroes are not allowed, no number has one
SemverIdsValid(ids, allow_leading_zeroes) ==
  \A i \in 1..Len(ids) :
    /\ Len(ids[i]) > 0
    /\ \/ allow_leading_zeroes
       \/ ~(ids[i][1] = "0" /\ AllDigits(ids[i]) /\ Len(ids[i]) > 1)

RECURSIVE SemverNumbersEnd(_, _, _)
\* the index after at most n groups of "." and digits starting at i
SemverNumbersEnd(s, i, n) ==
  IF n > 0 /\ i + 1 <= Len(s) /\ s[i] = "." /\ IsDigit(s[i + 1])
    THEN SemverNumbersEnd(s, SkipDigits(s, i + 1), n - 1)
    ELSE i

\* the Version of the numbers and the two identifier lists, when they are
\* valid; a missing minor or patch is 0
SemverMake(nums, pre_ids, build_ids) ==
  IF ~SemverIdsValid(pre_ids, FALSE) \/ ~SemverIdsValid(build_ids, TRUE)
    THEN Raise("ValueError")
  ELSE [kind |-> "ok",
        v |-> [major |-> ParseInt(nums[1]),
               minor |-> IF Len(nums) >= 2 THEN ParseInt(nums[2]) ELSE 0,
               patch |-> IF Len(nums) >= 3 THEN ParseInt(nums[3]) ELSE 0,
               prerelease |-> pre_ids, build |-> build_ids]]

\* the identifiers of a prerelease or build text (none when it is empty);
\* a "+" left in the build reads "."
SemverIds(text) ==
  IF Len(text) = 0 THEN <<>>
  ELSE Split([k \in 1..Len(text) |-> IF text[k] = "+" THEN "." ELSE text[k]],
             ".")

\* what follows the numbers: nothing, a build after "+" or ".", or a
\* prerelease (its leading "-" dropped) up to the first "+" and a build
SemverRest(nums, rest) ==
  LET Cut(cut, plus) ==
        IF plus = 0 THEN SemverMake(nums, SemverIds(cut), <<>>)
        ELSE SemverMake(nums, SemverIds(SubSeq(cut, 1, plus - 1)),
                        SemverIds(Tail2(cut, plus + 1)))
      Pre(cut) == Cut(cut, Find(cut, "+", 1))
  IN IF Len(rest) = 0 THEN SemverMake(nums, <<>>, <<>>)
     ELSE IF rest[1] \in {"+", "."}
       THEN SemverMake(nums, <<>>, SemverIds(Tail(rest)))
     ELSE Pre(IF rest[1] = "-" THEN Tail(rest) ELSE rest)

\* semantic_version.Version.coerce(version_string)
semver_coerce(version_string) ==
  LET s == version_string
      Numbers(i3) ==
        SemverRest(Split(SubSeq(s, 1, i3 - 1), "."),
                   [k \in 1..(Len(s) - i3 + 1) |->
                      SemverRestChar(s[i3 + k - 1])])
  IN IF Len(s) = 0 \/ ~IsDigit(s[1]) THEN Raise("ValueError")
     ELSE Numbers(SemverNumbersEnd(s, SkipDigits(s, 1), 2))

\* str(semantic_version.Version)
semver_str(v) ==
  IntToStr(v.major) \o <<".">> \o IntToStr(v.minor) \o <<".">>
  \o IntToStr(v.patch)
  \o (IF Len(v.prerelease) > 0
        THEN <<"-">> \o Join(v.prerelease, <<".">>) ELSE <<>>)
  \o (IF Len(v.build) > 0 THEN <<"+">> \o Join(v.build, <<".">>) ELSE <<>>)

\* semantic_version.Version.__eq__: every field, the build included
semver_eq(x, y) ==
  /\ x.major = y.major /\ x.minor = y.minor /\ x.patch = y.patch
  /\ x.prerelease = y.prerelease
  /\ x.build = y.build

\* one prerelease identifier before another: numbers before words, numbers
\* by value, words by string order
SemverIdLess(x, y) ==
  IF AllDigits(x) /\ AllDigits(y) THEN ParseInt(x) < ParseInt(y)
  ELSE IF AllDigits(x) THEN TRUE
  ELSE IF AllDigits(y) THEN FALSE
  ELSE StrLess(x, y)

RECURSIVE SemverIdsLess(_, _)
\* tuple order of two non-empty prerelease keys
SemverIdsLess(p, q) ==
  IF Len(q) = 0 THEN FALSE
  ELSE IF Len(p) = 0 THEN TRUE
  ELSE IF p[1] = q[1] THEN SemverIdsLess(Tail(p), Tail(q))
  ELSE SemverIdLess(p[1], q[1])

\* semantic_version.Version.__lt__: the precedence key (major, minor, patch,
\* prerelease), where no prerelease is above every prerelease; the build is
\* not part of it
semver_lt(x, y) ==
  IF x.major /= y.major THEN x.major < y.major
  ELSE IF x.minor /= y.minor THEN x.minor < y.minor
  ELSE IF x.patch /= y.patch THEN x.patch < y.patch
  ELSE IF Len(x.prerelease) = 0 THEN FALSE
  ELSE IF Len(y.prerelease) = 0 THEN TRUE
  ELSE SemverIdsLess(x.prerelease, y.prerelease)

\* SemverVersion.__init__ without its call of lower()
SemverVersion_init_cased(c, sch, version_string) ==
  LET stripped == lstrip(version_string, "v")
  IN ValueOf(semver_coerce(stripped), c, sch, stripped)

\* SemverVersion.__init__, which NugetVersion inherits (c and sch are the
\* class and its scheme attribute)
SemverVersion_init(c, sch, version_string) ==
  LET stripped == lstrip(lower(version_string), "v")
  IN ValueOf(semver_coerce(stripped), c, sch, stripped)

(***************************************************************************)
(* PYPIVersion.  The value is a packaging Version.  The model covers the   *)
(* part of the PEP 440 pattern that strings over digits, ".", ":", "a" and *)
(* "b" can match: the release segments and an a or b pre-release.  Epoch,  *)
(* post, dev and local parts need characters the pools do not hold.        *)
(***************************************************************************)
\* where the pre-release letter stands when release ends at i: at i, or
\* after one "." separator; 0 when there is no pre-release there
PypiPreAt(s, i) ==
  IF i <= Len(s) /\ s[i] \in {"a", "b"} THEN i
  ELSE IF i + 1 <= Len(s) /\ s[i] = "." /\ s[i + 1] \in {"a", "b"}
    THEN i + 1
  ELSE 0

\* the parse of s by Version._regex: release, pre-release letter and number
pypi_parse(s) ==
  LET i1 == SkipDigits(s, 1)
      i2 == ReDotted(s, i1)
      l == PypiPreAt(s, i2)
      n0 == IF l /= 0 /\ l + 1 <= Len(s) /\ s[l + 1] = "." THEN l + 2
            ELSE l + 1
      n1 == SkipDigits(s, n0)
      fin == IF l = 0 THEN i2 ELSE n1
      rel == Split(SubSeq(s, 1, i2 - 1), ".")
  IN IF i1 = 1 \/ fin /= Len(s) + 1 THEN Raise("no match")
     ELSE [kind |-> "ok",
           v |-> [release |-> [k \in 1..Len(rel) |-> ParseInt(rel[k])],
                  pre |-> IF l = 0 THEN <<>>
                          ELSE <<s[l], ParseInt(SubSeq(s, n0, n1 - 1))>>]]

\* PYPIVersion.validate: TRUE when it returns, FALSE when it raises
PYPIVersion_validate(version_string) == ~IsError(pypi_parse(version_string))

PYPIVersion_init(version_string) ==
  IF ~PYPIVersion_validate(version_string) THEN Raise("InvalidVersion")
  ELSE Value("PYPIVersion", S_pypi, pypi_parse(version_string).v,
             version_string)

\* str(packaging Version): the normalised text
pypi_str(v) ==
  Join([k \in 1..Len(v.release) |-> IntToStr(v.release[k])], <<".">>)
  \o (IF Len(v.pre) = 0 THEN <<>> ELSE <<v.pre[1]>> \o IntToStr(v.pre[2]))

RECURSIVE StripZeros(_)
\* a release without its trailing zero segments
StripZeros(r) ==
  IF Len(r) > 0 /\ r[Len(r)] = 0 THEN StripZeros(SubSeq(r, 1, Len(r) - 1))
  ELSE r

RECURSIVE NatsLess(_, _)
\* tuple order of two tuples of numbers
NatsLess(p, q) ==
  IF Len(q) = 0 THEN FALSE
  ELSE IF Len(p) = 0 THEN TRUE
  ELSE IF p[1] = q[1] THEN NatsLess(Tail(p), Tail(q))
  ELSE p[1] < q[1]

\* packaging Version.__lt__: the release without trailing zeros, then the
\* pre-release, none being above every pre-release
pypi_lt(x, y) ==
  LET rx == StripZeros(x.release)
      ry == StripZeros(y.release)
  IN IF rx /= ry THEN NatsLess(rx, ry)
     ELSE IF Len(x.pre) = 0 THEN FALSE
     ELSE IF Len(y.pre) = 0 THEN TRUE
     ELSE IF x.pre[1] /= y.pre[1] THEN Ord[x.pre[1]] < Ord[y.pre[1]]
     ELSE x.pre[2] < y.pre[2]

(***************************************************************************)
(* DebianVersion.  The value is a debian Version: epoch, upstream and      *)
(* revision.                                                               *)
(***************************************************************************)
\* debian.Version.from_string
debian_from_string(s) ==
  LET i == Find(s, ":", 1)
      ep == SubSeq(s, 1, i - 1)
      rest == IF i = 0 THEN s ELSE Tail2(s, i + 1)
      j == RFind(rest, "-", Len(rest))
  IN IF i /= 0 /\ (Len(ep) = 0 \/ ~AllDigits(ep)) THEN Raise("InvalidVersion")
     ELSE [kind |-> "ok",
           v |-> [epoch |-> IF i = 0 THEN 0 ELSE ParseInt(ep),
                  upstream |-> IF j = 0 THEN rest ELSE SubSeq(rest, 1, j - 1),
                  revision |-> IF j = 0 THEN <<"0">> ELSE Tail2(rest, j + 1)]]

\* str(debian Version)
debian_str(v) ==
  (IF v.epoch /= 0 THEN IntToStr(v.epoch) \o <<":">> ELSE <<>>)
  \o v.upstream
  \o (IF v.revision /= <<"0">> THEN <<"-">> \o v.revision ELSE <<>>)

\* the weight of the character at the head of s in a non-digit run: "~"
\* below the end of the run, letters next, every other character after them
DebOrder(s) ==
  IF Len(s) = 0 \/ IsDigit(s[1]) THEN 0
  ELSE IF s[1] = "~" THEN -1
  ELSE IF IsAlpha(s[1]) THEN Ord[s[1]]
  ELSE Ord[s[1]] + Len(Ascii)

RECURSIVE DebCompare(_, _)
\* the comparison of two upstream or revision strings: -1, 0 or 1
DebCompare(a, b) ==
  IF Len(a) = 0 /\ Len(b) = 0 THEN 0
  ELSE IF (Len(a) > 0 /\ ~IsDigit(a[1])) \/ (Len(b) > 0 /\ ~IsDigit(b[1]))
    THEN IF DebOrder(a) /= DebOrder(b) THEN Sign(DebOrder(a) - DebOrder(b))
         ELSE DebCompare(Tail(a), Tail(b))
  ELSE LET ia == SkipDigits(a, 1)
           ib == SkipDigits(b, 1)
           na == ParseInt(SubSeq(a, 1, ia - 1))
           nb == ParseInt(SubSeq(b, 1, ib - 1))
       IN IF na /= nb THEN Sign(na - nb)
          ELSE DebCompare(Tail2(a, ia), Tail2(b, ib))

\* debian compare of two Versions: epoch, then upstream, then revision
debian_compare(x, y) ==
  IF x.epoch /= y.epoch THEN Sign(x.epoch - y.epoch)
  ELSE IF DebCompare(x.upstream, y.upstream) /= 0
    THEN DebCompare(x.upstream, y.upstream)
  ELSE DebCompare(x.revision, y.revision)

DebianVersion_init(version_string) ==
  LET cleaned == remove_spaces(version_string)
  IN ValueOf(debian_from_string(cleaned), "DebianVersion", S_debian, cleaned)

(***************************************************************************)
(* MavenVersion.  The value is a maven Version: the tokens of the string,  *)
(* each with its place on one ordinal scale.                               *)
(***************************************************************************)
MavenQualifiers ==
  << <<"a", "l", "p", "h", "a">>, <<"b", "e", "t", "a">>,
     <<"m", "i", "l", "e", "s", "t", "o", "n", "e">>, <<"r", "c">>,
     <<"s", "n", "a", "p", "s", "h", "o", "t">> >>
MavenRelease == {<<>>, <<"g", "a">>, <<"f", "i", "n", "a", "l">>}
MavenReleaseRank == Len(MavenQualifiers) + 1

\* the key of one token: <<rank, number, word>>
MavenKey(t) ==
  IF Len(t) > 0 /\ AllDigits(t)
    THEN IF ParseInt(t) = 0 THEN <<MavenReleaseRank, 0, <<>> >>
         ELSE <<MavenReleaseRank + 3, ParseInt(t), <<>> >>
  ELSE IF t \in MavenRelease THEN <<MavenReleaseRank, 0, <<>> >>
  ELSE IF t = <<"s", "p">> THEN <<MavenReleaseRank + 1, 0, <<>> >>
  ELSE IF \E k \in 1..Len(MavenQualifiers) : MavenQualifiers[k] = t
    THEN <<CHOOSE k \in 1..Len(MavenQualifiers) : MavenQualifiers[k] = t,
           0, <<>> >>
  ELSE <<MavenReleaseRank + 2, 0, t>>

RECURSIVE MavenRuns(_)
\* the maximal runs of digits and of other characters of one field
MavenRuns(f) ==
  IF Len(f) = 0 THEN <<>>
  ELSE LET same == {k \in 1..Len(f) :
                      \A h \in 1..k : IsDigit(f[h]) = IsDigit(f[1])}
           e == CHOOSE k \in same : \A h \in same : h <= k
       IN <<SubSeq(f, 1, e)>> \o MavenRuns(Tail2(f, e + 1))

RECURSIVE MavenFields(_)
\* s cut at every "." and "-"
MavenFields(s) ==
  LET seps == {k \in 1..Len(s) : s[k] \in {".", "-"}}
  IN IF seps = {} THEN <<s>>
     ELSE LET i == CHOOSE k \in seps : \A h \in seps : k <= h
          IN <<SubSeq(s, 1, i - 1)>> \o MavenFields(Tail2(s, i + 1))

RECURSIVE MavenFlatten(_)
\* the runs of every field in order; an empty field is one empty token
MavenFlatten(fs) ==
  IF Len(fs) = 0 THEN <<>>
  ELSE (IF Len(fs[1]) = 0 THEN << <<>> >> ELSE MavenRuns(fs[1]))
       \o MavenFlatten(Tail(fs))

\* the tokens of s: it is cut at ".", at "-" and where digits meet other
\* characters
MavenTokens(s) == MavenFlatten(MavenFields(s))

MavenKeyCompare(k, l) ==
  IF k[1] /= l[1] THEN Sign(k[1] - l[1])
  ELSE IF k[2] /= l[2] THEN Sign(k[2] - l[2])
  ELSE IF k[3] = l[3] THEN 0
  ELSE IF StrLess(k[3], l[3]) THEN -1 ELSE 1

RECURSIVE maven_compare(_, _)
\* maven compare of two token lists, the shorter padded with release tokens
maven_compare(x, y) ==
  IF Len(x) = 0 /\ Len(y) = 0 THEN 0
  ELSE LET kx == IF Len(x) = 0 THEN MavenKey(<<>>) ELSE MavenKey(x[1])
           ky == IF Len(y) = 0 THEN MavenKey(<<>>) ELSE MavenKey(y[1])
           c == MavenKeyCompare(kx, ky)
       IN IF c /= 0 THEN c
          ELSE maven_compare(IF Len(x) = 0 THEN x ELSE Tail(x),
                             IF Len(y) = 0 THEN y ELSE Tail(y))

MavenVersion_init(version_string) ==
  LET cleaned == remove_spaces(version_string)
  IN Value("MavenVersion", S_maven,
           [tokens |-> MavenTokens(cleaned), text |-> cleaned], cleaned)

(***************************************************************************)
(* rpm.vercmp, used by RPMVersion                                          *)
(***************************************************************************)
RECURSIVE SkipAlpha(_, _)
\* the index after the maximal run of letters starting at i
SkipAlpha(s, i) ==
  IF i <= Len(s) /\ IsAlpha(s[i]) THEN SkipAlpha(s, i + 1) ELSE i

RECURSIVE RpmSkipSeparators(_)
\* s without its leading characters that are neither alphanumeric nor "~"
RpmSkipSeparators(s) ==
  IF Len(s) > 0 /\ ~IsAlnum(s[1]) /\ s[1] /= "~"
    THEN RpmSkipSeparators(Tail(s)) ELSE s

\* the comparison of two digit runs by value, of two letter runs as strings
SegmentCompare(x, y, isnum) ==
  IF isnum THEN Sign(ParseInt(x) - ParseInt(y))
  ELSE IF x = y THEN 0
  ELSE IF StrLess(x, y) THEN -1 ELSE 1

RECURSIVE rpm_compare_segments(_, _)
\* the segment walk over two version (or release) strings: -1, 0 or 1
rpm_compare_segments(a0, b0) ==
  LET a == RpmSkipSeparators(a0)
      b == RpmSkipSeparators(b0)
      at == Len(a) > 0 /\ a[1] = "~"
      bt == Len(b) > 0 /\ b[1] = "~"
  IN IF a0 = b0 THEN 0
     ELSE IF at \/ bt
       THEN IF ~at THEN 1
            ELSE IF ~bt THEN -1
            ELSE rpm_compare_segments(Tail(a), Tail(b))
     ELSE IF Len(a) = 0 \/ Len(b) = 0
       THEN IF Len(a) = 0 /\ Len(b) = 0 THEN 0
            ELSE IF Len(a) > 0 THEN 1 ELSE -1
     ELSE LET isnum == IsDigit(a[1])
              ea == IF isnum THEN SkipDigits(a, 1) ELSE SkipAlpha(a, 1)
              eb == IF isnum THEN SkipDigits(b, 1) ELSE SkipAlpha(b, 1)
              c == SegmentCompare(SubSeq(a, 1, ea - 1), SubSeq(b, 1, eb - 1),
                                  isnum)
          IN IF eb = 1 THEN (IF isnum THEN 1 ELSE -1)
             ELSE IF c /= 0 THEN c
             ELSE rpm_compare_segments(Tail2(a, ea), Tail2(b, eb))

\* epoch, version and release of an rpm version string
rpm_evr(s) ==
  LET i == Find(s, ":", 1)
      has_epoch == i > 1 /\ AllDigits(SubSeq(s, 1, i - 1))
      rest == IF has_epoch THEN Tail2(s, i + 1) ELSE s
      j == RFind(rest, "-", Len(rest))
  IN [epoch |-> IF has_epoch THEN ParseInt(SubSeq(s, 1, i - 1)) ELSE 0,
      version |-> IF j = 0 THEN rest ELSE SubSeq(rest, 1, j - 1),
      release |-> IF j = 0 THEN <<>> ELSE Tail2(rest, j + 1)]

\* rpm.vercmp(a, b): epoch, then version, then release
rpm_vercmp(a, b) ==
  LET x == rpm_evr(a)
      y == rpm_evr(b)
  IN IF x.epoch /= y.epoch THEN Sign(x.epoch - y.epoch)
     ELSE IF rpm_compare_segments(x.version, y.version) /= 0
       THEN rpm_compare_segments(x.version, y.version)
     ELSE rpm_compare_segments(x.release, y.release)

(***************************************************************************)
(* arch.vercmp, used by ArchVersion                                        *)
(***************************************************************************)
RECURSIVE SkipNonAlnum(_, _)
\* the index after the run of separator characters starting at i
SkipNonAlnum(s, i) ==
  IF i <= Len(s) /\ ~IsAlnum(s[i]) THEN SkipNonAlnum(s, i + 1) ELSE i

RECURSIVE arch_compare_segments(_, _)
\* the segment walk of Arch: -1, 0 or 1
arch_compare_segments(a, b) ==
  IF a = b THEN 0
  ELSE IF Len(a) = 0 \/ Len(b) = 0
    THEN \* the tie-break: a remaining word never beats the empty string
         IF (Len(a) = 0 /\ ~IsAlpha(b[1])) \/ (Len(a) > 0 /\ IsAlpha(a[1]))
           THEN -1 ELSE 1
  ELSE LET sa == SkipNonAlnum(a, 1)
           sb == SkipNonAlnum(b, 1)
           ra == Tail2(a, sa)
           rb == Tail2(b, sb)
       IN IF Len(ra) = 0 \/ Len(rb) = 0
            THEN IF Len(ra) = 0 /\ Len(rb) = 0 THEN 0
                 ELSE IF (Len(ra) = 0 /\ ~IsAlpha(rb[1]))
                         \/ (Len(ra) > 0 /\ IsAlpha(ra[1]))
                   THEN -1 ELSE 1
          ELSE IF sa /= sb THEN (IF sa < sb THEN -1 ELSE 1)
          ELSE LET isnum == IsDigit(ra[1])
                   ea == IF isnum THEN SkipDigits(ra, 1) ELSE SkipAlpha(ra, 1)
                   eb == IF isnum THEN SkipDigits(rb, 1) ELSE SkipAlpha(rb, 1)
                   c == SegmentCompare(SubSeq(ra, 1, ea - 1),
                                       SubSeq(rb, 1, eb - 1), isnum)
               IN IF eb = 1 THEN (IF isnum THEN 1 ELSE -1)
                  ELSE IF c /= 0 THEN c
                  ELSE arch_compare_segments(Tail2(ra, ea), Tail2(rb, eb))

\* epoch, version and release of an Arch version string; no release is <<>>
\* with has_release FALSE
arch_evr(s) ==
  LET i == SkipDigits(s, 1)
      has_epoch == i <= Len(s) /\ s[i] = ":"
      rest == IF has_epoch THEN Tail2(s, i + 1) ELSE s
      j == RFind(rest, "-", Len(rest))
  IN [epoch |-> IF has_epoch THEN ParseInt(SubSeq(s, 1, i - 1)) ELSE 0,
      version |-> IF j = 0 THEN rest ELSE SubSeq(rest, 1, j - 1),
      has_release |-> j /= 0,
      release |-> IF j = 0 THEN <<>> ELSE Tail2(rest, j + 1)]

\* arch.vercmp(a, b): epoch, then version, then release when both have one
arch_vercmp(a, b) ==
  LET x == arch_evr(a)
      y == arch_evr(b)
  IN IF x.epoch /= y.epoch THEN Sign(x.epoch - y.epoch)
     ELSE IF arch_compare_segments(x.version, y.version) /= 0
       THEN arch_compare_segments(x.version, y.version)
     ELSE IF x.has_release /\ y.has_release
       THEN arch_compare_segments(x.release, y.release)
     ELSE 0

(***************************************************************************)
(* gentoo.vercmp, used by GentooVersion, on strings of the version grammar *)
(***************************************************************************)
\* the parts of a valid version: the dotted numbers, the letter (<<>> when
\* none), the suffixes as <<word, digits>> and the revision
gentoo_parts(s) ==
  LET vr == gentoo_parse_version_and_revision(s)
      fields == Split(vr[1], "_")
      main == fields[1]
      has_letter == Len(main) > 0 /\ IsAlpha(main[Len(main)])
      numbers == IF has_letter THEN SubSeq(main, 1, Len(main) - 1) ELSE main
      suffix(f) == LET e == SkipAlpha(f, 1)
                   IN <<SubSeq(f, 1, e - 1), Tail2(f, e)>>
  IN [numbers |-> Split(numbers, "."),
      letter |-> IF has_letter THEN <<main[Len(main)]>> ELSE <<>>,
      suffixes |-> [k \in 1..(Len(fields) - 1) |-> suffix(fields[k + 1])],
      revision |-> vr[2]]

RECURSIVE PadZeros(_, _)
\* str.ljust(n, "0")
PadZeros(x, n) == IF Len(x) >= n THEN x ELSE PadZeros(x \o <<"0">>, n)

\* two dotted components after the first: a missing one is below every
\* number; one with a leading zero makes both compare as decimal fractions
GentooComponentCompare(x, y) ==
  LET n == IF Len(x) > Len(y) THEN Len(x) ELSE Len(y)
  IN IF Len(x) = 0 /\ Len(y) = 0 THEN 0
     ELSE IF Len(x) = 0 THEN -1
     ELSE IF Len(y) = 0 THEN 1
     ELSE IF x[1] /= "0" /\ y[1] /= "0" THEN Sign(ParseInt(x) - ParseInt(y))
     ELSE Sign(ParseInt(PadZeros(x, n)) - ParseInt(PadZeros(y, n)))

RECURSIVE GentooNumbersCompare(_, _)
GentooNumbersCompare(xs, ys) ==
  IF Len(xs) = 0 /\ Len(ys) = 0 THEN 0
  ELSE LET x == IF Len(xs) = 0 THEN <<>> ELSE xs[1]
           y == IF Len(ys) = 0 THEN <<>> ELSE ys[1]
           c == GentooComponentCompare(x, y)
       IN IF c /= 0 THEN c
          ELSE GentooNumbersCompare(IF Len(xs) = 0 THEN xs ELSE Tail(xs),
                                    IF Len(ys) = 0 THEN ys ELSE Tail(ys))

\* the place of a suffix word: alpha < beta < pre < rc < p
GentooSuffixValue(w) ==
  CASE w = <<"a", "l", "p", "h", "a">> -> -4
    [] w = <<"b", "e", "t", "a">> -> -3
    [] w = <<"p", "r", "e">> -> -2
    [] w = <<"r", "c">> -> -1
    [] OTHER -> 0

RECURSIVE GentooSuffixesCompare(_, _)
\* a missing suffix counts as _p with number -1, below _p0 and above _rc
GentooSuffixesCompare(xs, ys) ==
  IF Len(xs) = 0 /\ Len(ys) = 0 THEN 0
  ELSE LET wx == IF Len(xs) = 0 THEN 0 ELSE GentooSuffixValue(xs[1][1])
           wy == IF Len(ys) = 0 THEN 0 ELSE GentooSuffixValue(ys[1][1])
           nx == IF Len(xs) = 0 THEN -1 ELSE ParseInt(xs[1][2])
           ny == IF Len(ys) = 0 THEN -1 ELSE ParseInt(ys[1][2])
       IN IF wx /= wy THEN Sign(wx - wy)
          ELSE IF nx /= ny THEN Sign(nx - ny)
          ELSE GentooSuffixesCompare(IF Len(xs) = 0 THEN xs ELSE Tail(xs),
                                     IF Len(ys) = 0 THEN ys ELSE Tail(ys))

\* gentoo.vercmp(a, b): -1, 0 or 1
gentoo_vercmp(a, b) ==
  LET x == gentoo_parts(a)
      y == gentoo_parts(b)
      first == Sign(ParseInt(x.numbers[1]) - ParseInt(y.numbers[1]))
      rest == GentooNumbersCompare(Tail(x.numbers), Tail(y.numbers))
      letter == IF x.letter = y.letter THEN 0
                ELSE IF Len(x.letter) = 0 THEN -1
                ELSE IF Len(y.letter) = 0 THEN 1
                ELSE Sign(Ord[x.letter[1]] - Ord[y.letter[1]])
      suffixes == GentooSuffixesCompare(x.suffixes, y.suffixes)
  IN IF a = b THEN 0
     ELSE IF first /= 0 THEN first
     ELSE IF rest /= 0 THEN rest
     ELSE IF letter /= 0 THEN letter
     ELSE IF suffixes /= 0 THEN suffixes
     ELSE Sign(x.revision - y.revision)

(***************************************************************************)
(* The classes: construction, __str__ and the comparison operators.        *)
(***************************************************************************)
Classes ==
  {"GenericVersion", "SemverVersion", "DebianVersion", "PYPIVersion",
   "MavenVersion", "NugetVersion", "RPMVersion", "GentooVersion",
   "ArchVersion"}

\* cls(version_string)
New(cls, version_string) ==
  CASE cls = "GenericVersion" -> GenericVersion_init(version_string)
    [] cls = "SemverVersion" ->
         SemverVersion_init("SemverVersion", S_semver, version_string)
    [] cls = "NugetVersion" ->
         SemverVersion_init("NugetVersion", S_nuget, version_string)
    [] cls = "DebianVersion" -> DebianVersion_init(version_string)
    [] cls = "PYPIVersion" -> PYPIVersion_init(version_string)
    [] cls = "MavenVersion" -> MavenVersion_init(version_string)
    [] cls = "RPMVersion" -> RPMVersion_init(version_string)
    [] cls = "GentooVersion" -> GentooVersion_init(version_string)
    [] cls = "ArchVersion" -> ArchVersion_init(version_string)

\* str(self.value)
ValueStr(v) ==
  CASE v.cls \in {"SemverVersion", "NugetVersion"} -> semver_str(v.value)
    [] v.cls = "PYPIVersion" -> pypi_str(v.value)
    [] v.cls = "DebianVersion" -> debian_str(v.value)
    [] v.cls = "MavenVersion" -> v.value.text
    [] OTHER -> v.value

\* BaseVersion.__str__
BaseVersion_str(v) == v.scheme \o <<":">> \o ValueStr(v)

\* __lt__ written with <= 0 where the classes write == -1
Lt_or_equal(a, b) ==
  CASE a.cls \in {"SemverVersion", "NugetVersion"} ->
         semver_lt(a.value, b.value) \/ semver_eq(a.value, b.value)
    [] a.cls = "PYPIVersion" -> ~pypi_lt(b.value, a.value)
    [] a.cls = "DebianVersion" -> debian_compare(a.value, b.value) <= 0
    [] a.cls = "MavenVersion" ->
         maven_compare(a.value.tokens, b.value.tokens) <= 0
    [] a.cls = "ArchVersion" -> arch_vercmp(a.value, b.value) <= 0
    [] a.cls = "RPMVersion" -> rpm_vercmp(a.value, b.value) <= 0
    [] a.cls = "GentooVersion" -> gentoo_vercmp(a.value, b.value) <= 0

\* self.__lt__(other), as each class defines it
Lt(a, b) ==
  CASE a.cls \in {"SemverVersion", "NugetVersion"} -> semver_lt(a.value, b.value)
    [] a.cls = "PYPIVersion" -> pypi_lt(a.value, b.value)
    [] a.cls = "DebianVersion" -> debian_compare(a.value, b.value) = -1
    [] a.cls = "MavenVersion" ->
         maven_compare(a.value.tokens, b.value.tokens) = -1
    [] a.cls = "ArchVersion" -> arch_vercmp(a.value, b.value) = -1
    [] a.cls = "RPMVersion" -> rpm_vercmp(a.value, b.value) = -1
    [] a.cls = "GentooVersion" -> gentoo_vercmp(a.value, b.value) = -1

\* PYPIVersion is decorated attr.s(frozen=True, init=False, order=False,
\* hash=True): eq is left at its default, so attrs replaces the __eq__ the
\* class body defines by one that compares the attrs fields of two objects
\* of the same class.  The class declares none (value is an attr.ib of
\* BaseVersion, which is no attrs class), so the generated __eq__ is True.
PYPIVersion_eq(a, b) == a.cls = b.cls

\* self.__eq__(other), as each class defines it
Eq(a, b) ==
  CASE a.cls \in {"SemverVersion", "NugetVersion"} -> semver_eq(a.value, b.value)
    [] a.cls = "PYPIVersion" -> PYPIVersion_eq(a, b)
    [] a.cls = "DebianVersion" -> debian_compare(a.value, b.value) = 0
    [] a.cls = "MavenVersion" ->
         maven_compare(a.value.tokens, b.value.tokens) = 0
    [] a.cls = "ArchVersion" -> arch_vercmp(a.value, b.value) = 0
    [] a.cls = "RPMVersion" -> rpm_vercmp(a.value, b.value) = 0
    [] a.cls = "GentooVersion" -> gentoo_vercmp(a.value, b.value) = 0

PyBool(p) == IF p THEN "True" ELSE "False"

\* the six comparison operators on (a, b): __lt__ and __eq__ of the class,
\* __ne__ as the inverse of __eq__, and the three functools.total_ordering
\* derives from them
OperatorsFrom(lt, eq) ==
  [lt |-> PyBool(lt),
   eq |-> PyBool(eq),
   ne |-> PyBool(~eq),
   le |-> PyBool(lt \/ eq),
   gt |-> PyBool(~lt /\ ~eq),
   ge |-> PyBool(~lt)]

Operators(a, b) == OperatorsFrom(Lt(a, b), Eq(a, b))

(***************************************************************************)
(* The registry and parse_version.                                         *)
(***************************************************************************)
version_class_by_scheme ==
  (S_generic :> "GenericVersion") @@ (S_semver :> "SemverVersion")
  @@ (S_debian :> "DebianVersion") @@ (S_pypi :> "PYPIVersion")
  @@ (S_maven :> "MavenVersion") @@ (S_nuget :> "NugetVersion")
  @@ (S_rpm :> "RPMVersion") @@ (S_ebuild :> "GentooVersion")

\* validate_scheme: None when it returns
validate_scheme(scheme) ==
  IF scheme \notin DOMAIN version_class_by_scheme THEN Raise("ValueError")
  ELSE None

\* parse_version with version_class_by_scheme.get(scheme, GenericVersion)
\* in place of the subscript
parse_version_default(version) ==
  LET i == Find(version, ":", 1)
      scheme == IF i /= 0 THEN SubSeq(version, 1, i - 1) ELSE S_generic
      body == IF i /= 0 THEN Tail2(version, i + 1) ELSE version
  IN IF scheme \notin DOMAIN version_class_by_scheme
       THEN New("GenericVersion", body)
     ELSE New(version_class_by_scheme[scheme], body)

\* parse_version(version); the subscript raises KeyError for a scheme that
\* is no key of the registry
parse_version(version) ==
  LET i == Find(version, ":", 1)
      scheme == IF i /= 0 THEN SubSeq(version, 1, i - 1) ELSE S_generic
      body == IF i /= 0 THEN Tail2(version, i + 1) ELSE version
  IN IF scheme \notin DOMAIN version_class_by_scheme THEN Raise("KeyError")
     ELSE New(version_class_by_scheme[scheme], body)

(***************************************************************************)
(* The inputs of the model.                                                *)
(***************************************************************************)
\* every string over alphabet of at most n characters
Strings(alphabet, n) == UNION {[1..k -> alphabet] : k \in 0..n}

CommonAlphabet == {"1", ".", ":", "a"}
GentooAlphabet == {"1", ".", "_", "p", "-", "r", " "}
SemverAlphabet == {"1", "0", ".", "v", "V", "-", "+"}

\* hand-picked version strings for PYPIVersion
PypiPicks ==
  {<<"1">>, <<"1", ".", "0">>, <<"1", ".", "1">>, <<"2", ".", "0">>,
   <<"1", ".", "0", "a", "1">>, <<"1", ".", "0", "b", "1">>,
   <<"1", ".", "0", "a">>, <<"1", ".", "0", ".", "0">>,
   <<"1", "a", ".", "1">>, <<"1", "0">>, <<"0", "1">>, <<"a", "1">>,
   <<"1", ".", ".", "0">>, <<"1", ".", "0", ".", "a", "2">>,
   <<"1", ".", "0", ".", "0", ".", "0", "b", "2">>}

\* hand-picked version strings for SemverVersion and NugetVersion
SemverPicks ==
  {<<"1">>, <<"1", ".", "2">>, <<"1", ".", "2", ".", "0">>,
   <<"v", "1", ".", "2">>, <<"V", "1", ".", "2">>,
   <<"1", ".", "2", ".", "3">>, <<"1", ".", "2", ".", "3", "-", "a">>,
   <<"1", ".", "2", ".", "3", "-", "1">>,
   <<"1", ".", "2", ".", "3", "-", "a", ".", "1">>,
   <<"1", ".", "2", ".", "3", "+", "b">>,
   <<"1", ".", "2", ".", "3", "+", "c">>, <<"2", ".", "0", ".", "0">>,
   <<"1", ".", "2", "-", "R", "C">>, <<"v", "v", "1", ".", "2">>,
   <<"1", ".", "2", ".", "3", "-", "a", "+", "b">>}

\* hand-picked version strings for DebianVersion
DebianPicks ==
  {<<"1", ".", "0">>, <<"1", ".", "0", "-", "1">>,
   <<"1", ".", "0", "-", "2">>, <<"1", ":", "5", ".", "0">>,
   <<"2", ":", "1", ".", "0">>, <<"1", ".", "0", "~", "r", "c", "1">>,
   <<"1", ".", "0", "a">>, <<"1", ".", "0", "+", "b">>,
   <<"1", ".", "0", "0">>, <<"a", ":", "1">>,
   <<"1", ".", "0", "-", "0">>, <<"1", ".", "0", " ", "-", "1">>,
   <<"1", ":", "1", ".", "0", "~", "r", "c", "1">>}

\* hand-picked version strings for RPMVersion
RpmPicks ==
  {<<"1", ".", "0">>, <<"1", ".", "0", "-", "1">>,
   <<"1", ".", "0", "-", "2">>, <<"1", ".", "0", "~", "r", "c", "1">>,
   <<"1", ".", "0", "a">>, <<"1", ".", "a">>,
   <<"1", ":", "1", ".", "0">>, <<"2", ".", "0">>,
   <<"1", ".", "0", ".", "1">>, <<"1", ".", "0", "0">>, <<"a">>,
   <<"1", "_", "0">>, <<"1", " ", ".", "0">>,
   <<"1", ":", "1", ".", "0", "~", "r", "c", "1">>}

\* hand-picked version strings for ArchVersion
ArchPicks ==
  {<<"1", ".", "0">>, <<"1", ".", "0", "-", "1">>,
   <<"1", ".", "0", "-", "2">>, <<"1", ":", "1", ".", "0">>,
   <<"1", ".", "0", "a">>, <<"1", ".", "0", ".", "a">>,
   <<"1", ".", "0", "A">>, <<"A">>, <<"1", ".", ".", "0">>,
   <<"1", ".", "0", ".", "1">>, <<"a">>, <<"1", " ", ".", "0">>,
   <<"1", ".", "0", "1">>,
   <<"1", ":", "1", ".", "0", ".", "a", "-", "1">>}

\* hand-picked version strings for GentooVersion
GentooPicks ==
  {<<"1", ".", "0">>, <<"1", "_", "a", "l", "p", "h", "a">>,
   <<"1", "_", "b", "e", "t", "a">>, <<"1", "_", "p", "r", "e">>,
   <<"1", "_", "r", "c">>, <<"1", "_", "p">>, <<"1", "_", "p", "1">>,
   <<"1", ".", "0", "-", "r", "1">>, <<"1", ".", "0", "a">>,
   <<"1", ".", "0", "1">>, <<"1", ".", "1">>, <<"1", ".", "1", "0">>,
   <<"1", ".", "0", ".", "0">>, <<"b", "o", "g", "u", "s", "!", "!">>,
   <<"1", ".", "0", "_">>, <<"1", ".", "0", " ">>,
   <<"1", ".", "0", "-", "r">>,
   <<"1", ".", "0", "_", "a", "l", "p", "h", "a">>,
   <<"1", ".", "0", "_", "b", "e", "t", "a", "2">>}

\* hand-picked version strings for MavenVersion
MavenPicks ==
  {<<"1">>, <<"1", ".", "0">>, <<"1", ".", "1">>,
   <<"1", "-", "a", "l", "p", "h", "a">>,
   <<"1", "-", "b", "e", "t", "a">>, <<"1", "-", "r", "c">>,
   <<"1", "-", "s", "p">>, <<"1", ".", "0", ".", "1">>,
   <<"1", "-", "g", "a">>, <<"1", "-", "f", "o", "o">>,
   <<"1", "-", "1">>, <<"1", "a", "1">>, <<"1", " ", ".", "0">>,
   <<"1", ".", "0", "-", "f", "i", "n", "a", "l">>}

GenericPicks == {<<"1", ".", "0">>, <<"1", "0", ".", "2", "a">>}

AllPicks(cls) ==
  CASE cls = "PYPIVersion" -> PypiPicks
    [] cls \in {"SemverVersion", "NugetVersion"} -> SemverPicks
    [] cls = "DebianVersion" -> DebianPicks
    [] cls = "RPMVersion" -> RpmPicks
    [] cls = "ArchVersion" -> ArchPicks
    [] cls = "GentooVersion" -> GentooPicks
    [] cls = "MavenVersion" -> MavenPicks
    [] OTHER -> GenericPicks

Picks(cls) == {s \in AllPicks(cls) : Len(s) <= MaxPick}

\* the bodies a constructor is called with
Bodies(cls) ==
  Strings(CommonAlphabet, MaxLen) \cup Picks(cls)
  \cup (IF cls = "GentooVersion" THEN Strings(GentooAlphabet, MaxLen)
        ELSE IF cls = "SemverVersion" THEN Strings(SemverAlphabet, MaxLen)
        ELSE {})

\* the scheme prefixes parse_version is called with: the registry's keys,
\* the scheme of ArchVersion, an unknown word and the empty prefix
S_foo == <<"f", "o", "o">>
Prefixes == DOMAIN version_class_by_scheme \cup {S_arch, S_foo, <<>>}

PrefixBodies(prefix) ==
  IF prefix \in DOMAIN version_class_by_scheme
    THEN Strings(CommonAlphabet, MaxLen)
         \cup Picks(version_class_by_scheme[prefix])
  ELSE IF prefix = S_arch
    THEN Strings(CommonAlphabet, MaxLen) \cup Picks("ArchVersion")
  ELSE Strings(CommonAlphabet, MaxLen) \cup Picks("GenericVersion")

\* the strings without a colon parse_version is called with
BareInputs ==
  {s \in Strings(CommonAlphabet, MaxLen) \cup GenericPicks \cup SemverPicks :
     Find(s, ":", 1) = 0}

\* every string parse_version is called with
ParseInputs ==
  UNION {{p \o <<":">> \o b : b \in PrefixBodies(p)} : p \in Prefixes}
  \cup BareInputs

\* two values the session compares: of one class, or of two classes whose
\* values have the same type (two semantic_version Versions, two strings
\* that their comparator can read)
Comparable(a, b) ==
  \/ a.cls = b.cls
  \/ {a.cls, b.cls} = {"SemverVersion", "NugetVersion"}
  \/ {a.cls, b.cls} = {"RPMVersion", "ArchVersion"}
  \/ /\ {a.cls, b.cls} \in {{"RPMVersion", "GentooVersion"},
                            {"ArchVersion", "GentooVersion"}}
     /\ GentooVersion_validate(a.value)
     /\ GentooVersion_validate(b.value)

(***************************************************************************)
(* The state: the last call (op), its string argument (arg), what it       *)
(* returned or raised (out), and the Version objects the caller holds      *)
(* (vals).                                                                 *)
(***************************************************************************)
NoArg == [cls |-> "", text |-> <<>>]

Init ==
  /\ op = "none"
  /\ arg = NoArg
  /\ vals = <<>>
  /\ out = None

\* the call returned or raised r: a Version object returned is kept
Returned(name, a, r) ==
  /\ op' = name
  /\ arg' = a
  /\ out' = r
  /\ vals' = IF IsValue(r) THEN Append(vals, r) ELSE vals

\* parse_version(s)
ParseVersion ==
  \E s \in ParseInputs :
    /\ op = "none"
    /\ Returned("parse_version", [cls |-> "", text |-> s], parse_version(s))

\* cls(body)
Construct ==
  \E cls \in Classes :
    \E body \in Bodies(cls) :
      /\ op = "none"
      /\ Returned("construct", [cls |-> cls, text |-> body], New(cls, body))

\* validate_scheme(scheme)
ValidateScheme ==
  \E scheme \in Prefixes :
    /\ op = "none"
    /\ op' = "validate_scheme"
    /\ arg' = [cls |-> "", text |-> scheme]
    /\ out' = validate_scheme(scheme)
    /\ UNCHANGED vals

\* str(v) of the object just built
Str ==
  /\ op \in {"parse_version", "construct"}
  /\ IsValue(out)
  /\ op' = "str"
  /\ out' = Text(BaseVersion_str(vals[1]))
  /\ UNCHANGED <<arg, vals>>

\* parse_version(str(v))
Reparse ==
  /\ op = "str"
  /\ Returned("reparse", [cls |-> "", text |-> out.text],
              parse_version(out.text))

\* r may be kept beside the objects held: as the first, as a second that
\* can be compared with the first, as a third of the class of the first two
Admitted(r) ==
  \/ Len(vals) = 0
  \/ Len(vals) = 1 /\ IsValue(r) /\ Comparable(vals[1], r)
  \/ /\ Len(vals) = 2 /\ IsValue(r)
     /\ vals[1].cls = r.cls /\ vals[2].cls = r.cls

PickReturned(a, r) ==
  /\ Admitted(r)
  /\ Returned("construct", a, r)

\* cls(body) for a hand-picked body, the object kept beside the ones held
ConstructPick ==
  \E cls \in Classes :
    \E body \in Picks(cls) :
      /\ op \in {"none", "construct"}
      /\ PickReturned([cls |-> cls, text |-> body], New(cls, body))

\* the six comparison operators on every pair of the objects held
Compare ==
  /\ op = "construct"
  /\ Len(vals) >= 2
  /\ op' = "compare"
  /\ out' = [kind |-> "cmp",
             rel |-> [i \in 1..Len(vals) |->
                        [j \in 1..Len(vals) |-> Operators(vals[i], vals[j])]]]
  /\ UNCHANGED <<arg, vals>>

\* parsing, construction and printing
Next == ParseVersion \/ Construct \/ ValidateScheme \/ Str \/ Reparse

Spec == Init /\ [][Next]_vars

\* construction and comparison
NextOrder == ConstructPick \/ Compare

SpecOrder == Init /\ [][NextOrder]_vars

(***************************************************************************)
(* The statements checked.                                                 *)
(***************************************************************************)
HasColon(s) == \E i \in 1..Len(s) : s[i] = ":"
\* the position of the first colon of a string that has one
FirstColon(s) ==
  CHOOSE i \in 1..Len(s) : s[i] = ":" /\ \A h \in 1..(i - 1) : s[h] /= ":"
SchemeOf(s) == SubSeq(s, 1, FirstColon(s) - 1)
BodyOf(s) == SubSeq(s, FirstColon(s) + 1, Len(s))

\* the class the registry gives for the prefix of s
ClassOf(s) == version_class_by_scheme[SchemeOf(s)]

\* cls accepts body: its validation does not reject it
ValidBody(cls, body) ==
  ~(IsError(New(cls, body))
    /\ New(cls, body).error \in {"InvalidVersion", "ValueError"})

\* C1: parse_version of a string without a colon returns a value of scheme
\* generic whose body is the input unchanged; it does not fail
C1_BareIsGeneric ==
  (op = "parse_version" /\ ~HasColon(arg.text)) =>
    /\ IsValue(out)
    /\ out.scheme = S_generic
    /\ out.value = arg.text

\* the objects compared are of one class
SameClass == \A i \in 1..Len(vals) : vals[i].cls = vals[1].cls

\* what the operators returned on the i-th and j-th object
LtAt(i, j) == out.rel[i][j].lt = "True"
EqAt(i, j) == out.rel[i][j].eq = "True"

\* C2: for two values of one scheme exactly one of a < b, a == b, b < a
\* holds
C2_TotalOrder ==
  (op = "compare" /\ SameClass) =>
    \A i, j \in 1..Len(vals) :
      \/ LtAt(i, j) /\ ~EqAt(i, j) /\ ~LtAt(j, i)
      \/ ~LtAt(i, j) /\ EqAt(i, j) /\ ~LtAt(j, i)
      \/ ~LtAt(i, j) /\ ~EqAt(i, j) /\ LtAt(j, i)

\* C3: comparing two values of different schemes raises IncomparableSchemes
\* and returns no boolean
C3_CrossSchemeRaises ==
  (op = "compare" /\ vals[1].scheme /= vals[2].scheme) =>
    out = Raise("IncomparableSchemes")

\* C4: parse_version of a string whose text before the first colon is no
\* key of the registry fails with the error of the registry lookup (the
\* KeyError of the subscript), and no Version object is produced
C4_UnknownSchemeFails ==
  (/\ op = "parse_version"
   /\ HasColon(arg.text)
   /\ SchemeOf(arg.text) \notin DOMAIN version_class_by_scheme) =>
    /\ out = Raise("KeyError")
    /\ vals = <<>>

\* parse_version("foo:1.0") has raised the lookup error
C4_Witness ==
  /\ op = "parse_version"
  /\ arg.text = S_foo \o <<":", "1", ".", "0">>
  /\ out = Raise("KeyError")
  /\ vals = <<>>

\* C5: parse_version of a string whose text before the first colon is a
\* registered scheme returns the value of that scheme built from everything
\* after the first colon (the body being one the scheme accepts)
C5_RegisteredPrefix ==
  (/\ op = "parse_version"
   /\ HasColon(arg.text)
   /\ SchemeOf(arg.text) \in DOMAIN version_class_by_scheme
   /\ ValidBody(ClassOf(arg.text), BodyOf(arg.text))) =>
    /\ IsValue(out)
    /\ out.scheme = SchemeOf(arg.text)
    /\ out = New(ClassOf(arg.text), BodyOf(arg.text))

\* C6: parse_version(str(v)) succeeds and returns a value of the scheme of
\* v that is equal to v
C6_RoundTrip ==
  (op = "reparse") =>
    /\ IsValue(out)
    /\ out.scheme = vals[1].scheme
    /\ Eq(vals[1], out)

\* C7: on three values of one scheme, a < b and b < c imply a < c, and
\* a < b implies not b < a
C7_Transitive ==
  (op = "compare" /\ SameClass) =>
    /\ \A i, j, k \in 1..Len(vals) :
         (LtAt(i, j) /\ LtAt(j, k)) => LtAt(i, k)
    /\ \A i, j \in 1..Len(vals) : LtAt(i, j) => ~LtAt(j, i)

\* three values of one scheme were compared and form a chain a < b < c
C7_Witness ==
  /\ op = "compare"
  /\ Len(vals) = 3
  /\ SameClass
  /\ vals[1].cls \in {"ArchVersion", "GentooVersion"}
  /\ LtAt(1, 2) /\ LtAt(2, 3) /\ LtAt(1, 3)
  /\ ~LtAt(2, 1) /\ ~LtAt(3, 2) /\ ~LtAt(3, 1)

\* C8: str(v) is the scheme of v, a colon and the text v was constructed
\* from
C8_StrIsOriginalText ==
  (op = "str" /\ arg.cls /= "") =>
    out.text = vals[1].scheme \o <<":">> \o arg.text

\* the grammar digit(.digit)*[letter]?(_(alpha|beta|pre|rc|p)digit*)*, read
\* field by field: the fields between "_" are the dotted numbers with at
\* most one letter after them, then suffix words each followed by digits
GentooSuffixNames ==
  {<<"a", "l", "p", "h", "a">>, <<"b", "e", "t", "a">>, <<"p", "r", "e">>,
   <<"r", "c">>, <<"p">>}

IsGentooSuffix(f) ==
  \E w \in GentooSuffixNames :
    /\ Len(f) >= Len(w)
    /\ SubSeq(f, 1, Len(w)) = w
    /\ AllDigits(SubSeq(f, Len(w) + 1, Len(f)))

IsGentooNumbers(m) ==
  \A k \in 1..Len(Split(m, ".")) :
    Len(Split(m, ".")[k]) > 0 /\ AllDigits(Split(m, ".")[k])

IsGentooMain(m) ==
  \/ IsGentooNumbers(m)
  \/ Len(m) > 1 /\ IsAlpha(m[Len(m)]) /\ IsGentooNumbers(SubSeq(m, 1, Len(m) - 1))

GentooGrammar(s) ==
  /\ IsGentooMain(Split(s, "_")[1])
  /\ \A k \in 2..Len(Split(s, "_")) : IsGentooSuffix(Split(s, "_")[k])

\* s without spaces and without its -rN revision suffix
GentooChecked(s) == gentoo_parse_version_and_revision(remove_spaces(s))[1]

\* C9: GentooVersion(s) raises InvalidVersion and leaves no value when s,
\* without spaces and without its -rN suffix, does not match the grammar;
\* when it matches, the construction succeeds and stores s without spaces
C9_GentooValidation ==
  (op = "construct" /\ arg.cls = "GentooVersion") =>
    IF GentooGrammar(GentooChecked(arg.text))
      THEN /\ IsValue(out)
           /\ out.value = remove_spaces(arg.text)
           /\ vals = <<out>>
      ELSE /\ out = Raise("InvalidVersion")
           /\ vals = <<>>

\* GentooVersion("bogus!!") has raised InvalidVersion
C9_Witness ==
  /\ op = "construct"
  /\ arg.cls = "GentooVersion"
  /\ arg.text = <<"b", "o", "g", "u", "s", "!", "!">>
  /\ out = Raise("InvalidVersion")
  /\ vals = <<>>

\* the lengths of the prefixes of t that read as one, two or three numbers
\* separated by "."
SemverNumberPrefixes(t) ==
  {k \in 1..Len(t) :
     /\ Len(Split(SubSeq(t, 1, k), ".")) <= 3
     /\ \A p \in 1..Len(Split(SubSeq(t, 1, k), ".")) :
          /\ Len(Split(SubSeq(t, 1, k), ".")[p]) > 0
          /\ AllDigits(Split(SubSeq(t, 1, k), ".")[p])}

\* t with the numbers it starts with (the first e characters) padded with
\* zeros to MAJOR.MINOR.PATCH
SemverPadded(t, e) ==
  SubSeq(t, 1, e)
  \o (CASE Len(Split(SubSeq(t, 1, e), ".")) = 1 -> <<".", "0", ".", "0">>
        [] Len(Split(SubSeq(t, 1, e), ".")) = 2 -> <<".", "0">>
        [] OTHER -> <<>>)
  \o SubSeq(t, e + 1, Len(t))

\* the lower-cased, v-stripped, zero-padded form of s
SemverCanonical(s) ==
  IF SemverNumberPrefixes(lstrip(lower(s), "v")) = {} THEN lstrip(lower(s), "v")
  ELSE SemverPadded(lstrip(lower(s), "v"),
                    CHOOSE k \in SemverNumberPrefixes(lstrip(lower(s), "v")) :
                      \A h \in SemverNumberPrefixes(lstrip(lower(s), "v")) :
                        h <= k)

\* C10: SemverVersion of an input equals SemverVersion of its lower-cased,
\* v-stripped, zero-padded MAJOR.MINOR.PATCH form: the one is constructed
\* exactly when the other is, and the two are then equal
C10_SemverCoercion ==
  (op = "construct" /\ arg.cls = "SemverVersion") =>
    IF IsValue(out)
      THEN /\ IsValue(New("SemverVersion", SemverCanonical(arg.text)))
           /\ Eq(out, New("SemverVersion", SemverCanonical(arg.text)))
      ELSE IsError(New("SemverVersion", SemverCanonical(arg.text)))

\* SemverVersion("V1.2") was constructed and is SemverVersion("1.2.0")
C10_Witness ==
  /\ op = "construct"
  /\ arg.cls = "SemverVersion"
  /\ arg.text = <<"V", "1", ".", "2">>
  /\ IsValue(out)
  /\ SemverCanonical(arg.text) = <<"1", ".", "2", ".", "0">>
  /\ Eq(out, New("SemverVersion", <<"1", ".", "2", ".", "0">>))

=============================================================================
